---- MODULE Spec2Model ----
(***************************************************************************)
(* Model of schwab_auth.py: the SchwabAuth token manager and its CLI       *)
(* entry point main().  One run of the program is one behaviour: main()    *)
(* dispatches on the command-line flag to get_valid_access_token, which    *)
(* either loads a stored refresh token (local file, then GCS) or runs the  *)
(* interactive authorization-code flow, and then exchanges the refresh     *)
(* token for an access token.                                              *)
(*                                                                         *)
(* Strings are sequences of one-character strings.  Python's None is the   *)
(* empty tuple and a present value v is the one-element tuple <<v>>.       *)
(* The HTTP provider, the human at the prompt and the GCS client are the   *)
(* environment: their answers are chosen nondeterministically.             *)
(***************************************************************************)
EXTENDS Integers, Sequences, FiniteSets, TLC

\* ------------------------------------------------------------------ bounds
\* longest run of whitespace put before / after a stored token
MaxPad == 1

\* most calls made on the token file when its two methods are driven alone
MaxCalls == 3

\* ------------------------------------------------------------ Python values
None == <<>>
Some(v) == <<v>>
Val(o) == o[1]

\* a test for None where the code tests truthiness
Truthy_NotNone(o) == o # None

\* Python truthiness of a value that is None or a string
Truthy(o) == o # None /\ Val(o) # <<>>

WS == {" ", "\n"}

RECURSIVE LStrip(_)
LStrip(s) == IF s # <<>> /\ Head(s) \in WS THEN LStrip(Tail(s)) ELSE s

RECURSIVE RStrip(_)
RStrip(s) == IF s # <<>> /\ s[Len(s)] \in WS
             THEN RStrip(SubSeq(s, 1, Len(s) - 1)) ELSE s

\* str.rstrip() where the code calls strip()
Strip_TrailingOnly(s) == RStrip(s)

\* str.strip()
Strip(s) == RStrip(LStrip(s))

\* s[:n]
Take(s, n) == IF Len(s) <= n THEN s ELSE SubSeq(s, 1, n)

RECURSIVE Rep(_, _)
Rep(c, n) == IF n = 0 THEN <<>> ELSE <<c>> \o Rep(c, n - 1)

\* ------------------------------------------------------------ string helpers
\* index of the first occurrence of p in s, 0 when there is none
FindSub(s, p) ==
    LET hits == {i \in 1..(Len(s) - Len(p) + 1) : SubSeq(s, i, i + Len(p) - 1) = p}
    IN  IF hits = {} THEN 0 ELSE CHOOSE i \in hits : \A j \in hits : i <= j

\* p in s
Contains(s, p) == FindSub(s, p) # 0

\* s.split(p)[0]
SplitHead(s, p) ==
    IF FindSub(s, p) = 0 THEN s ELSE SubSeq(s, 1, FindSub(s, p) - 1)

\* the text after the first occurrence of p (p occurs in s)
SplitRest(s, p) == SubSeq(s, FindSub(s, p) + Len(p), Len(s))

\* s.split(p)[1]   (p occurs in s)
SplitSecond(s, p) == SplitHead(SplitRest(s, p), p)

\* the percent escapes that occur in the inputs of this model
HexTable == [e \in {<<"2", "B">>, <<"2", "b">>, <<"2", "0">>, <<"2", "6">>}
               |-> CASE e = <<"2", "B">> -> "+"
                     [] e = <<"2", "b">> -> "+"
                     [] e = <<"2", "0">> -> " "
                     [] e = <<"2", "6">> -> "&"]

\* urllib.parse.unquote: %XX becomes the character, anything else is kept
RECURSIVE unquote(_)
unquote(s) ==
    IF s = <<>> THEN <<>>
    ELSE IF Head(s) = "%" /\ Len(s) >= 3 /\ <<s[2], s[3]>> \in DOMAIN HexTable
         THEN <<HexTable[<<s[2], s[3]>>]>> \o unquote(SubSeq(s, 4, Len(s)))
         ELSE <<Head(s)>> \o unquote(Tail(s))

CodeEq == <<"c", "o", "d", "e", "=">>
Amp == <<"&">>

\* lines 149-152: the authorization code taken from the pasted redirect URL
ExtractCode(redirect_url) ==
    unquote(SplitHead(SplitSecond(redirect_url, CodeEq), Amp))

\* ------------------------------------------------------------------ domains
\* refresh tokens and access tokens the provider issues
RefreshTokens == {<<"a">>, <<"b">>}
AccessTokens == {<<"x">>, <<"y">>}

\* what a token file can hold: a token or nothing, inside whitespace
FileContents ==
    {Rep(" ", i) \o c \o Rep("\n", j) :
        i \in 0..MaxPad, j \in 0..MaxPad, c \in {<<>>} \cup RefreshTokens}

\* a file or object: None when it does not exist, else its contents
Files == {None} \cup {Some(c) : c \in FileContents}

\* what the human pastes at "Paste the full redirect URL here"
RedirectInputs ==
    { <<"?">> \o CodeEq \o <<"A", "&", "s">>,
      <<" ">> \o CodeEq \o <<"A", "%", "2", "B", "1">> \o <<" ">>,
      CodeEq \o <<"A">> \o CodeEq \o <<"B">>,
      <<"h", "?", "s", "=", "1">>,
      <<>> }

\* what the human types at "Enter the authorization code"
ManualInputs == { <<"A">>, <<" ", "B", "%", "2", "0", "1", " ">> }

\* HTTP answers of the token endpoint.  A 200 body is a JSON object that
\* has or lacks each field; the body of another status is error text.
Statuses == {200, 201, 400}

CodeResponses ==
    {[status |-> 200, access_token |-> at, refresh_token |-> rt] :
        at \in {None} \cup {Some(t) : t \in {<<"x">>}},
        rt \in {None} \cup {Some(t) : t \in RefreshTokens}}
    \cup {[status |-> s, access_token |-> None, refresh_token |-> None] :
            s \in Statuses \ {200}}

RefreshResponses ==
    {[status |-> 200, access_token |-> at] :
        at \in {None, Some(<<>>)} \cup {Some(t) : t \in AccessTokens}}
    \cup {[status |-> s, access_token |-> None] : s \in Statuses \ {200}}

\* ------------------------------------------------------------------- state
VARIABLES
    use_gcs_refresh_token,  \* args.get_access_token
    APP_KEY, APP_SECRET,    \* os.getenv(...): None or a string
    GCS_BUCKET_NAME,        \* os.getenv('GCS_BUCKET_NAME')
    localFile,              \* schwab_refresh_token.txt
    gcsObject,              \* the object of the same name in the bucket
    pc,                     \* position of the run
    auth_code,              \* automated_token_management: auth_code
    tokens,                 \* automated_token_management: tokens
    refresh_token,          \* get_valid_access_token: refresh_token
    access_token,           \* main: access_token (the value returned)
    events,                 \* calls made to the outside, in order
    stdout,                 \* lines printed, in order
    localFile0, gcsObject0  \* the two stores as the run found them

vars == <<use_gcs_refresh_token, APP_KEY, APP_SECRET, GCS_BUCKET_NAME,
          localFile, gcsObject, pc, auth_code, tokens, refresh_token,
          access_token, events, stdout, localFile0, gcsObject0>>

config == <<use_gcs_refresh_token, APP_KEY, APP_SECRET, GCS_BUCKET_NAME,
            localFile0, gcsObject0>>

\* a call to the outside: what was passed, the HTTP status (0 when the call
\* is not HTTP), whether the code takes it as a success, what came back
Ev(op, arg, status, ok, ret) ==
    [op |-> op, arg |-> arg, status |-> status, ok |-> ok, ret |-> ret]
Line(kind, text) == [kind |-> kind, text |-> text]

\* lines 15-33: the object after __init__, and the files as the run finds them
Init ==
    /\ use_gcs_refresh_token \in BOOLEAN
    /\ APP_KEY \in {None, Some(<<"k">>)}
    /\ APP_SECRET \in {None, Some(<<"s">>)}
    /\ GCS_BUCKET_NAME \in {None, Some(<<"g">>)}
    /\ localFile \in Files
    /\ gcsObject \in Files
    /\ localFile0 = localFile
    /\ gcsObject0 = gcsObject
    /\ pc = "main"
    /\ auth_code = None
    /\ tokens = None
    /\ refresh_token = None
    /\ access_token = None
    /\ events = <<>>
    /\ stdout = <<>>

\* a client built and used whether or not a bucket name is set
gcs_client_Always == TRUE

\* line 33 with lines 49 and 53: self.gcs_client and self.GCS_BUCKET_NAME
gcs_client == Truthy(GCS_BUCKET_NAME)

\* the file read back without .strip()
load_refresh_token_NoStrip(file) ==
    IF file # None THEN Some(Val(file)) ELSE None

\* lines 41-46
load_refresh_token(file) ==
    IF file # None THEN Some(Strip(Val(file))) ELSE None

\* line 96: response.json() of a body that has both fields
Body(resp) == [access_token |-> Val(resp.access_token),
               refresh_token |-> Val(resp.refresh_token)]

\* the other field of the body handed to save_refresh_token
TokenToStore_Access(t) == t.access_token

\* line 164: tokens['refresh_token'] is what is saved
TokenToStore(t) == t.refresh_token

\* the file opened with 'a': the token is added to what was there
save_refresh_token_Append(old, token) ==
    IF old = None THEN Some(token) ELSE Some(Val(old) \o token)

\* the file written only when it does not exist yet
save_refresh_token_Keep(old, token) ==
    IF old = None THEN Some(token) ELSE old

\* lines 35-39: open(..., 'w') and write: the new contents of the file
save_refresh_token(old, token) == Some(token)

\* lines 95 and 124: response.status_code == 200
StatusOk(status) == status = 200

\* lines 79-83 and 109-113: the Basic header is built from APP_KEY and
\* APP_SECRET; the provider answers 200 only to credentials it knows, and
\* "None" formatted into the header is not one
ProviderAccepts == APP_KEY # None /\ APP_SECRET # None

\* ------------------------------------------------------------------ main()
\* lines 209-212 and 216-219: what main prints for the value it got back
MainPrint(at) ==
    IF Truthy(at)
    THEN <<Line("Access Token", Val(at))>>
    ELSE IF use_gcs_refresh_token
         THEN <<Line("Failed to retrieve access token using GCS refresh token.", <<>>)>>
         ELSE <<Line("Failed to authenticate and upload refresh token.", <<>>)>>

\* get_valid_access_token returns at to main, which prints and ends
Return(at, printed) ==
    /\ access_token' = at
    /\ stdout' = stdout \o printed \o MainPrint(at)
    /\ pc' = "done"

\* an exception nobody catches ends the process with a traceback
Crash(printed) ==
    /\ access_token' = access_token
    /\ stdout' = stdout \o printed
    /\ pc' = "crashed"

\* without a stored token the run asks the human after all
NoTokenRetrieval_Interactive(printed) ==
    /\ access_token' = access_token
    /\ stdout' = stdout \o printed
    /\ pc' = "manual"

\* lines 178-180
NoTokenRetrieval(printed) ==
    Return(None, printed \o
        <<Line("No valid refresh token available locally or in GCS.", <<>>)>>)

\* --------------------------------------------------------- retrieval mode
\* the bucket asked first, the local file only without a bucket
RetrievalLoad_RemoteFirst ==
    /\ pc = "main"
    /\ use_gcs_refresh_token
    /\ LET rt == load_refresh_token(localFile) IN
         IF gcs_client
         THEN /\ refresh_token' = None
              /\ pc' = "download"
              /\ stdout' = stdout \o <<Line("Downloading refresh token from GCS bucket", <<>>)>>
              /\ UNCHANGED access_token
         ELSE IF Truthy(rt)
              THEN /\ refresh_token' = rt
                   /\ pc' = "refresh"
                   /\ UNCHANGED <<access_token, stdout>>
              ELSE /\ refresh_token' = None
                   /\ NoTokenRetrieval(<<>>)
    /\ UNCHANGED <<config, localFile, gcsObject, auth_code, tokens, events>>

\* lines 207-208, 174-180, 52-53, 61: load the local token; without one go
\* to the bucket when there is a bucket
RetrievalLoad ==
    /\ pc = "main"
    /\ use_gcs_refresh_token
    /\ LET rt == load_refresh_token(localFile) IN
         IF Truthy(rt)
         THEN /\ refresh_token' = rt
              /\ pc' = "refresh"
              /\ UNCHANGED <<access_token, stdout>>
         ELSE IF gcs_client
              THEN /\ refresh_token' = rt
                   /\ pc' = "download"
                   /\ stdout' = stdout \o <<Line("Downloading refresh token from GCS bucket", <<>>)>>
                   /\ UNCHANGED access_token
              ELSE /\ refresh_token' = None
                   /\ NoTokenRetrieval(<<>>)
    /\ UNCHANGED <<config, localFile, gcsObject, auth_code, tokens, events>>

\* the object taken out of the bucket by the download
GcsDownload_Move ==
    /\ pc = "download"
    /\ \E success \in BOOLEAN :
         /\ success => gcsObject # None
         /\ events' = Append(events, Ev("download", None, 0, success, IF success THEN gcsObject ELSE None))
         /\ IF success
            THEN /\ localFile' = gcsObject
                 /\ gcsObject' = None
                 /\ LET rt == load_refresh_token(gcsObject)
                        printed == <<Line("Downloaded refresh token", <<>>)>> IN
                      /\ refresh_token' = rt
                      /\ IF Truthy(rt)
                         THEN /\ pc' = "refresh"
                              /\ stdout' = stdout \o printed
                              /\ UNCHANGED access_token
                         ELSE NoTokenRetrieval(printed)
            ELSE /\ localFile' = localFile
                 /\ gcsObject' = gcsObject
                 /\ refresh_token' = None
                 /\ NoTokenRetrieval(<<Line("Failed to download refresh token from GCS.", <<>>)>>)
    /\ UNCHANGED <<config, auth_code, tokens>>

\* the object read into memory, the local file not written
GcsDownload_NoPersist ==
    /\ pc = "download"
    /\ \E success \in BOOLEAN :
         /\ success => gcsObject # None
         /\ events' = Append(events, Ev("download", None, 0, success, IF success THEN gcsObject ELSE None))
         /\ IF success
            THEN /\ localFile' = localFile
                 /\ gcsObject' = gcsObject
                 /\ LET rt == load_refresh_token(gcsObject)
                        printed == <<Line("Downloaded refresh token", <<>>)>> IN
                      /\ refresh_token' = rt
                      /\ IF Truthy(rt)
                         THEN /\ pc' = "refresh"
                              /\ stdout' = stdout \o printed
                              /\ UNCHANGED access_token
                         ELSE NoTokenRetrieval(printed)
            ELSE /\ localFile' = localFile
                 /\ gcsObject' = gcsObject
                 /\ refresh_token' = None
                 /\ NoTokenRetrieval(<<Line("Failed to download refresh token from GCS.", <<>>)>>)
    /\ UNCHANGED <<config, auth_code, tokens>>

\* lines 55-61, 177-180: gcs_client.download_file writes the object to the
\* local file and says whether it did
GcsDownload ==
    /\ pc = "download"
    /\ \E success \in BOOLEAN :
         /\ success => gcsObject # None
         /\ events' = Append(events, Ev("download", None, 0, success, IF success THEN gcsObject ELSE None))
         /\ IF success
            THEN /\ localFile' = gcsObject
                 /\ LET rt == load_refresh_token(localFile')
                        printed == <<Line("Downloaded refresh token", <<>>)>> IN
                      /\ refresh_token' = rt
                      /\ IF Truthy(rt)
                         THEN /\ pc' = "refresh"
                              /\ stdout' = stdout \o printed
                              /\ UNCHANGED access_token
                         ELSE NoTokenRetrieval(printed)
            ELSE /\ localFile' = localFile
                 /\ refresh_token' = None
                 /\ NoTokenRetrieval(<<Line("Failed to download refresh token from GCS.", <<>>)>>)
    /\ UNCHANGED <<config, gcsObject, auth_code, tokens>>

\* -------------------------------------------------------- interactive mode
\* the human is asked only when no local token file exists; with one, its
\* token goes straight to the refresh exchange
Prompt_PolicyGated ==
    /\ pc = "main"
    /\ ~use_gcs_refresh_token
    /\ IF localFile # None /\ Truthy(load_refresh_token(localFile))
       THEN /\ refresh_token' = load_refresh_token(localFile)
            /\ pc' = "refresh"
            /\ UNCHANGED <<events, auth_code, stdout>>
       ELSE /\ refresh_token' = refresh_token
            /\ \E pasted \in RedirectInputs :
                 LET redirect_url == Strip(pasted) IN
                   /\ events' = Append(events, Ev("input", None, 0, TRUE, Some(pasted)))
                   /\ IF Contains(redirect_url, CodeEq)
                      THEN /\ auth_code' = Some(ExtractCode(redirect_url))
                           /\ stdout' = stdout \o
                                <<Line("=== GETTING FRESH TOKENS ===", <<>>),
                                  Line("Extracted code", Take(ExtractCode(redirect_url), 20))>>
                           /\ pc' = "exchange"
                      ELSE /\ auth_code' = None
                           /\ stdout' = stdout \o
                                <<Line("=== GETTING FRESH TOKENS ===", <<>>),
                                  Line("Could not find code in URL. Please enter manually:", <<>>)>>
                           /\ pc' = "manual"
    /\ UNCHANGED <<config, localFile, gcsObject, tokens, access_token>>

\* lines 213-215, 182, 133-157: print the URL, read the pasted redirect URL
Prompt ==
    /\ pc = "main"
    /\ ~use_gcs_refresh_token
    /\ \E pasted \in RedirectInputs :
         LET redirect_url == Strip(pasted) IN
           /\ events' = Append(events, Ev("input", None, 0, TRUE, Some(pasted)))
           /\ IF Contains(redirect_url, CodeEq)
              THEN /\ auth_code' = Some(ExtractCode(redirect_url))
                   /\ stdout' = stdout \o
                        <<Line("=== GETTING FRESH TOKENS ===", <<>>),
                          Line("Extracted code", Take(ExtractCode(redirect_url), 20))>>
                   /\ pc' = "exchange"
              ELSE /\ auth_code' = None
                   /\ stdout' = stdout \o
                        <<Line("=== GETTING FRESH TOKENS ===", <<>>),
                          Line("Could not find code in URL. Please enter manually:", <<>>)>>
                   /\ pc' = "manual"
    /\ UNCHANGED <<config, localFile, gcsObject, tokens, refresh_token, access_token>>

\* lines 156-157
ManualPrompt ==
    /\ pc = "manual"
    /\ \E typed \in ManualInputs :
         /\ events' = Append(events, Ev("input", None, 0, TRUE, Some(typed)))
         /\ auth_code' = Some(unquote(Strip(typed)))
    /\ pc' = "exchange"
    /\ UNCHANGED <<config, localFile, gcsObject, tokens, refresh_token,
                   access_token, stdout>>

\* lines 183-185 after automated_token_management returned rt
AfterAuth(rt, printed) ==
    IF Truthy(rt)
    THEN /\ refresh_token' = rt
         /\ pc' = "refresh"
         /\ stdout' = stdout \o printed
         /\ UNCHANGED access_token
    ELSE /\ refresh_token' = rt
         /\ Return(None, printed \o <<Line("No valid refresh token available", <<>>)>>)

\* lines 166-167
Uploaded(rt, printed) ==
    AfterAuth(rt, printed \o
        <<Line("Tokens obtained and uploaded to GCS successfully!", <<>>)>>)

\* after a rejected code the run goes on with the token already stored
CodeExchangeFailed_Fallback ==
    /\ tokens' = None
    /\ localFile' = localFile
    /\ AfterAuth(load_refresh_token(localFile),
          <<Line("Error getting tokens", <<>>),
            Line("Failed to get tokens", <<>>)>>)

\* lines 101-104, 168-170, 183-185: the endpoint said no; nothing is kept
CodeExchangeFailed ==
    /\ tokens' = None
    /\ localFile' = localFile
    /\ refresh_token' = None
    /\ Return(None,
          <<Line("Error getting tokens", <<>>),
            Line("Failed to get tokens", <<>>),
            Line("No valid refresh token available", <<>>)>>)

\* lines 160-170, 93-104, 35-39, 48-49: POST the code; on status 200 read
\* the two fields, write the refresh token to the local file, and go on to
\* the upload when there is a bucket
CodeExchange ==
    /\ pc = "exchange"
    /\ \E resp \in CodeResponses :
         /\ resp.status = 200 => ProviderAccepts
         /\ events' = Append(events,
                Ev("code_exchange", auth_code, resp.status, StatusOk(resp.status),
                   resp.refresh_token))
              \o (IF StatusOk(resp.status) /\ resp.access_token # None
                                           /\ resp.refresh_token # None
                  THEN <<Ev("save", Some(TokenToStore(Body(resp))), 0, TRUE, None)>>
                  ELSE <<>>)
         /\ IF StatusOk(resp.status)
            THEN IF resp.access_token = None
                 THEN /\ Crash(<<Line("Tokens obtained successfully!", <<>>)>>)
                      /\ UNCHANGED <<tokens, localFile, refresh_token>>
                 ELSE IF resp.refresh_token = None
                 THEN /\ Crash(<<Line("Tokens obtained successfully!", <<>>),
                                 Line("Access Token", Take(Val(resp.access_token), 20))>>)
                      /\ UNCHANGED <<tokens, localFile, refresh_token>>
                 ELSE LET printed ==
                            <<Line("Tokens obtained successfully!", <<>>),
                              Line("Access Token", Take(Val(resp.access_token), 20)),
                              Line("Refresh Token", Take(Val(resp.refresh_token), 20)),
                              Line("Refresh token saved", <<>>)>> IN
                      /\ tokens' = Some(Body(resp))
                      /\ localFile' = save_refresh_token(localFile, TokenToStore(Body(resp)))
                      /\ IF gcs_client
                         THEN /\ pc' = "upload"
                              /\ stdout' = stdout \o printed
                              /\ UNCHANGED <<refresh_token, access_token>>
                         ELSE Uploaded(resp.refresh_token, printed)
            ELSE CodeExchangeFailed
    /\ UNCHANGED <<config, gcsObject, auth_code>>

\* an upload that did not succeed ends the process
GcsUpload_Fatal ==
    /\ pc = "upload"
    /\ \E success \in BOOLEAN :
         /\ events' = Append(events, Ev("upload", localFile, 0, success, None))
         /\ gcsObject' = IF success THEN localFile ELSE gcsObject
         /\ IF success
            THEN Uploaded(Some(Val(tokens).refresh_token), <<>>)
            ELSE /\ refresh_token' = refresh_token
                 /\ Crash(<<>>)
    /\ UNCHANGED <<config, localFile, auth_code, tokens>>

\* lines 50, 166-167, 183: gcs_client.upload_file sends the local file to
\* the bucket; what it returns is not looked at
GcsUpload ==
    /\ pc = "upload"
    /\ \E success \in BOOLEAN :
         /\ events' = Append(events, Ev("upload", localFile, 0, success, None))
         /\ gcsObject' = IF success THEN localFile ELSE gcsObject
    /\ Uploaded(Some(Val(tokens).refresh_token), <<>>)
    /\ UNCHANGED <<config, localFile, auth_code, tokens>>

\* ------------------------------------------------------- refresh exchange
\* a rejected refresh is tried a second time
RefreshFailed_Retry ==
    IF Cardinality({i \in DOMAIN events : events[i].op = "refresh_exchange"}) < 1
    THEN /\ pc' = "refresh"
         /\ stdout' = stdout \o <<Line("Error refreshing token", <<>>)>>
         /\ access_token' = access_token
    ELSE Return(None, <<Line("Error refreshing token", <<>>),
                        Line("Failed to get access token", <<>>)>>)

\* lines 126-129, 191-193: the endpoint said no; the run ends without a token
RefreshFailed ==
    Return(None, <<Line("Error refreshing token", <<>>),
                   Line("Failed to get access token", <<>>)>>)

\* lines 188-195, 106-129: POST the refresh token; on status 200 return the
\* access_token field
RefreshExchange ==
    /\ pc = "refresh"
    /\ \E resp \in RefreshResponses :
         /\ resp.status = 200 => ProviderAccepts
         /\ events' = Append(events,
                Ev("refresh_exchange", refresh_token, resp.status, StatusOk(resp.status),
                   resp.access_token))
         /\ IF StatusOk(resp.status)
            THEN IF resp.access_token = None
                 THEN Crash(<<>>)
                 ELSE IF Truthy(resp.access_token)
                      THEN Return(resp.access_token, <<>>)
                      ELSE Return(None, <<Line("Failed to get access token", <<>>)>>)
            ELSE RefreshFailed
    /\ UNCHANGED <<config, localFile, gcsObject, auth_code, tokens, refresh_token>>

Next ==
    \/ RetrievalLoad
    \/ GcsDownload
    \/ Prompt
    \/ ManualPrompt
    \/ CodeExchange
    \/ GcsUpload
    \/ RefreshExchange

Spec == Init /\ [][Next]_vars

\* ------------------------------------------- the token file driven alone
\* save_refresh_token and load_refresh_token called in any order on a
\* SchwabAuth object, as a caller of the class may do

\* strings handed to save_refresh_token
SaveTokens ==
    { <<>>, <<"\n">>, <<"a">>, <<"b">>, <<" ", "a", "\n">>,
      <<"b", " ", " ">>, <<"a", " ", "b">> }

InitStore ==
    /\ use_gcs_refresh_token = FALSE
    /\ APP_KEY = Some(<<"k">>)
    /\ APP_SECRET = Some(<<"s">>)
    /\ GCS_BUCKET_NAME = None
    /\ localFile \in {None, Some(<<"b", "\n">>)}
    /\ gcsObject = None
    /\ localFile0 = localFile
    /\ gcsObject0 = gcsObject
    /\ pc = "api"
    /\ auth_code = None
    /\ tokens = None
    /\ refresh_token = None
    /\ access_token = None
    /\ events = <<>>
    /\ stdout = <<>>

\* lines 35-39
SaveCall ==
    /\ pc = "api"
    /\ Len(events) < MaxCalls
    /\ \E token \in SaveTokens :
         /\ localFile' = save_refresh_token(localFile, token)
         /\ events' = Append(events, Ev("save", Some(token), 0, TRUE, None))
    /\ stdout' = Append(stdout, Line("Refresh token saved", <<>>))
    /\ UNCHANGED <<config, gcsObject, pc, auth_code, tokens, refresh_token,
                   access_token>>

\* lines 41-46
LoadCall ==
    /\ pc = "api"
    /\ Len(events) < MaxCalls
    /\ refresh_token' = load_refresh_token(localFile)
    /\ events' = Append(events,
           Ev("load", None, 0, TRUE, load_refresh_token(localFile)))
    /\ UNCHANGED <<config, localFile, gcsObject, pc, auth_code, tokens,
                   access_token, stdout>>

NextStore == SaveCall \/ LoadCall

SpecStore == InitStore /\ [][NextStore]_vars

\* ------------------------------------------------------------- properties
\* the token a file holds: its contents without the whitespace around them,
\* nothing for a file that does not exist
NonWs(s) == {i \in 1..Len(s) : s[i] \notin {" ", "\n"}}

Trimmed(s) ==
    IF NonWs(s) = {} THEN <<>>
    ELSE SubSeq(s, CHOOSE i \in NonWs(s) : \A j \in NonWs(s) : i <= j,
                   CHOOSE i \in NonWs(s) : \A j \in NonWs(s) : i >= j)

TokenIn(file) == IF file = None THEN <<>> ELSE Trimmed(Val(file))

EvsOf(op) == {i \in DOMAIN events : events[i].op = op}
LastEv == events[Len(events)]
Finished == pc \in {"done", "crashed"}
Printed(kind) == \E i \in DOMAIN stdout : stdout[i].kind = kind
Exchanges == EvsOf("code_exchange") \cup EvsOf("refresh_exchange")

\* C1: in retrieval mode, when the local file holds token L and the bucket
\* holds a different token R, the bucket is never asked and the refresh
\* exchange is called with L.
C1_Case ==
    /\ use_gcs_refresh_token
    /\ TokenIn(localFile0) # <<>>
    /\ TokenIn(gcsObject0) # <<>>
    /\ TokenIn(localFile0) # TokenIn(gcsObject0)

C1_LocalBeforeRemote ==
    C1_Case =>
        /\ EvsOf("download") = {}
        /\ pc # "download"
        /\ \A i \in EvsOf("refresh_exchange") :
               events[i].arg = Some(TokenIn(localFile0))
        /\ Finished => EvsOf("refresh_exchange") # {}

C1_Witness ==
    /\ C1_Case
    /\ gcs_client
    /\ Finished
    /\ EvsOf("refresh_exchange") # {}

\* C2: in retrieval mode without a local token, when the bucket is
\* configured and its download hands over the object holding token T, the
\* local file holds T afterwards, the refresh exchange is called once and
\* with T, and an access token the run returns is what that exchange gave.
C2_Case ==
    /\ use_gcs_refresh_token
    /\ TokenIn(localFile0) = <<>>
    /\ gcs_client
    /\ TokenIn(gcsObject0) # <<>>
    /\ \E i \in EvsOf("download") : events[i].ok

C2_RemoteFallback ==
    C2_Case =>
        /\ Cardinality(EvsOf("download")) = 1
        /\ TokenIn(localFile) = TokenIn(gcsObject0)
        /\ pc \in {"refresh", "done", "crashed"}
        /\ \A i \in EvsOf("refresh_exchange") :
               events[i].arg = Some(TokenIn(gcsObject0))
        /\ Finished =>
               /\ Cardinality(EvsOf("refresh_exchange")) = 1
               /\ LastEv.op = "refresh_exchange"
        /\ (pc = "done" /\ access_token # None) =>
               /\ LastEv.ok
               /\ access_token = LastEv.ret

C2_Witness ==
    /\ C2_Case
    /\ localFile0 # localFile
    /\ Val(gcsObject0) # TokenIn(gcsObject0)
    /\ pc = "done"
    /\ access_token # None

\* C3: in retrieval mode with no token in the local file (missing, empty or
\* blank) and a bucket that is not configured or whose download gives
\* nothing, the run ends without an access token, reports that no refresh
\* token is available, and makes neither OAuth exchange.
C3_Case ==
    /\ use_gcs_refresh_token
    /\ TokenIn(localFile0) = <<>>
    /\ \/ ~gcs_client
       \/ \E i \in EvsOf("download") : ~events[i].ok

C3_NoRefreshTokenAvailable ==
    /\ (use_gcs_refresh_token /\ TokenIn(localFile0) = <<>>
          /\ pc \in {"main", "download"}) => Exchanges = {}
    /\ C3_Case =>
        /\ pc \in {"main", "done"}
        /\ Exchanges = {}
        /\ pc = "done" =>
               /\ access_token = None
               /\ Printed("No valid refresh token available locally or in GCS.")

C3_Witness ==
    /\ C3_Case
    /\ localFile0 = Some(<<>>)
    /\ gcs_client
    /\ pc = "done"

\* C4: in interactive mode, when the code exchange is answered with a status
\* outside 200..299, the run ends without an access token and reports the
\* rejection, the local file and the bucket object are as the run found
\* them, and the refresh exchange is never called.
C4_Case ==
    /\ ~use_gcs_refresh_token
    /\ \E i \in EvsOf("code_exchange") : events[i].status \notin 200..299

C4_CodeRejected ==
    C4_Case =>
        /\ pc = "done"
        /\ access_token = None
        /\ Printed("Error getting tokens")
        /\ Printed("Failed to authenticate and upload refresh token.")
        /\ localFile = localFile0
        /\ gcsObject = gcsObject0
        /\ EvsOf("save") = {}
        /\ EvsOf("upload") = {}
        /\ EvsOf("refresh_exchange") = {}

C4_Witness ==
    /\ C4_Case
    /\ gcs_client
    /\ TokenIn(localFile0) # <<>>
    /\ pc = "done"

\* C5: in interactive mode, once the code exchange has given refresh token
\* RT, the calls made are, in this order and each at most once: the code
\* exchange, the write of RT to the local file, the upload (with a bucket),
\* the refresh exchange with RT; the run returns only after the refresh
\* exchange and an access token it returns is the one that exchange gave.
\* The local file holds RT whatever it held before.
C5_Case == ~use_gcs_refresh_token /\ tokens # None

C5_RT == Val(tokens).refresh_token

C5_Calls == SelectSeq(events, LAMBDA e : e.op # "input")

C5_Expected ==
    <<"code_exchange", "save">>
        \o (IF Truthy(GCS_BUCKET_NAME) THEN <<"upload">> ELSE <<>>)
        \o <<"refresh_exchange">>

C5_InteractiveOrder ==
    C5_Case =>
        /\ Len(C5_Calls) <= Len(C5_Expected)
        /\ \A i \in DOMAIN C5_Calls :
               /\ C5_Calls[i].op = C5_Expected[i]
               /\ IF C5_Calls[i].op = "code_exchange"
                  THEN C5_Calls[i].ok /\ C5_Calls[i].ret = Some(C5_RT)
                  ELSE C5_Calls[i].arg = Some(C5_RT)
        /\ localFile = Some(C5_RT)
        /\ Finished => Len(C5_Calls) = Len(C5_Expected)
        /\ (pc = "done" /\ access_token # None) =>
               /\ LastEv.ok
               /\ access_token = LastEv.ret

C5_Witness ==
    /\ C5_Case
    /\ gcs_client
    /\ TokenIn(localFile0) \notin {<<>>, C5_RT}
    /\ pc = "done"
    /\ access_token # None

\* C6: with a bucket configured, once an interactive run has reported
\* "Tokens obtained and uploaded to GCS successfully!", the local file and
\* the bucket object both hold the refresh token just issued.
C6_Converged ==
    (/\ ~use_gcs_refresh_token
     /\ gcs_client
     /\ tokens # None
     /\ Printed("Tokens obtained and uploaded to GCS successfully!")) =>
        /\ TokenIn(localFile) = Val(tokens).refresh_token
        /\ TokenIn(gcsObject) = Val(tokens).refresh_token

\* C7: in every run each OAuth exchange is issued at most once; an exchange
\* answered with a failure is the last call of the run, which ends at once
\* without an access token; and a run that returns an access token returns
\* what its one refresh exchange, the last call of the run, gave.
C7_NoRetry ==
    /\ Cardinality(EvsOf("code_exchange")) <= 1
    /\ Cardinality(EvsOf("refresh_exchange")) <= 1
    /\ \A i \in Exchanges :
           ~events[i].ok =>
               /\ i = Len(events)
               /\ pc = "done"
               /\ access_token = None
    /\ access_token # None =>
           /\ pc = "done"
           /\ LastEv.op = "refresh_exchange"
           /\ LastEv.ok
           /\ access_token = LastEv.ret

C7_Witness ==
    /\ ~use_gcs_refresh_token
    /\ pc = "done"
    /\ EvsOf("code_exchange") # {}
    /\ LastEv.op = "refresh_exchange"
    /\ ~LastEv.ok

\* C8: a retrieval-mode run never reads from the human and never calls the
\* code exchange, whatever the two stores hold and whatever the answers.
C8_RetrievalNotInteractive ==
    use_gcs_refresh_token =>
        /\ EvsOf("input") = {}
        /\ EvsOf("code_exchange") = {}
        /\ pc \notin {"manual", "exchange", "upload"}

C8_Witness ==
    /\ use_gcs_refresh_token
    /\ TokenIn(localFile0) = <<>>
    /\ EvsOf("download") # {}
    /\ pc = "done"
    /\ access_token = None

\* C9: a run that has returned to main has printed an "Access Token: ..."
\* line exactly when it got an access token, and a run without one has
\* printed a failure message.
C9_OutputContract ==
    pc = "done" =>
        /\ Printed("Access Token") <=> access_token # None
        /\ access_token = None =>
               \/ Printed("Failed to retrieve access token using GCS refresh token.")
               \/ Printed("Failed to authenticate and upload refresh token.")

\* C10: when SCHWAB_APP_KEY or SCHWAB_APP_SECRET is not set, no run makes
\* the code exchange or the refresh exchange, and none returns an access
\* token.
C10_ConfigurationMissing ==
    (APP_KEY = None \/ APP_SECRET = None) =>
        /\ Exchanges = {}
        /\ access_token = None

\* C11: a failure of the bucket never ends the run by itself.  After a
\* failed upload in interactive mode the local file holds the new refresh
\* token, the run goes on to the refresh exchange with it and returns the
\* access token that exchange gives; after a failed download in retrieval
\* mode the run ends, not in a crash, reporting that no refresh token is
\* available.
C11_UploadFailed ==
    /\ ~use_gcs_refresh_token
    /\ \E i \in EvsOf("upload") : ~events[i].ok

C11_DownloadFailed ==
    /\ use_gcs_refresh_token
    /\ \E i \in EvsOf("download") : ~events[i].ok

C11_RemoteFailureNotFatal ==
    /\ C11_UploadFailed =>
        /\ tokens # None
        /\ localFile = Some(Val(tokens).refresh_token)
        /\ pc \in {"refresh", "done", "crashed"}
        /\ Finished =>
               /\ LastEv.op = "refresh_exchange"
               /\ LastEv.arg = Some(Val(tokens).refresh_token)
        /\ (Finished /\ LastEv.ok /\ LastEv.ret # None /\ LastEv.ret # Some(<<>>)) =>
               /\ pc = "done"
               /\ access_token = LastEv.ret
    /\ C11_DownloadFailed =>
        /\ pc = "done"
        /\ access_token = None
        /\ localFile = localFile0
        /\ Printed("No valid refresh token available locally or in GCS.")

C11_Witness ==
    /\ C11_UploadFailed
    /\ gcsObject # localFile
    /\ pc = "done"
    /\ access_token # None

\* C12: when an exchange is answered 200 with a body that lacks a field it
\* reads (access_token or refresh_token for the code exchange, access_token
\* for the refresh exchange), the run ends by returning to main without an
\* access token and with a failure message, not in an uncaught exception;
\* after such a code exchange both stores are as the run found them.
C12_CodeMalformed ==
    /\ tokens = None
    /\ \E i \in EvsOf("code_exchange") : events[i].ok

C12_RefreshMalformed ==
    \E i \in EvsOf("refresh_exchange") : events[i].ok /\ events[i].ret = None

C12_MalformedReported ==
    (C12_CodeMalformed \/ C12_RefreshMalformed) =>
        /\ pc = "done"
        /\ access_token = None
        /\ \/ Printed("Failed to retrieve access token using GCS refresh token.")
           \/ Printed("Failed to authenticate and upload refresh token.")
        /\ C12_CodeMalformed =>
               /\ localFile = localFile0
               /\ gcsObject = gcsObject0

\* the policy of spec section 4.2: re-authenticate on Mondays and whenever
\* no local token file exists
Weekdays == {"Mon", "Tue", "Wed", "Thu", "Fri", "Sat", "Sun"}

shouldForceReauthentication(today, localTokenExists) ==
    today = "Mon" \/ ~localTokenExists

Prompted == EvsOf("input") # {}

C14_Issued == {events[i].ret : i \in EvsOf("code_exchange")}

C14_AccessTokenNeverStored ==
    /\ localFile \in {localFile0, gcsObject0} \cup C14_Issued
    /\ gcsObject \in {gcsObject0} \cup C14_Issued
    /\ TokenIn(localFile) \notin AccessTokens
    /\ TokenIn(gcsObject) \notin AccessTokens
    /\ \A i \in EvsOf("save") \cup EvsOf("upload") :
           /\ events[i].arg # None
           /\ Val(events[i].arg) \in RefreshTokens
    /\ access_token # None =>
           /\ localFile # access_token
           /\ gcsObject # access_token

C14_Witness ==
    /\ ~use_gcs_refresh_token
    /\ \E i \in EvsOf("upload") : events[i].ok
    /\ pc = "done"
    /\ access_token # None

\* C15: a load returns the token of the latest save before it, without the
\* whitespace around it (the token itself when it has none around it):
\* nothing of what the file held before that save is read back.
C15_LastSave(i) ==
    CHOOSE j \in EvsOf("save") :
        j < i /\ \A k \in EvsOf("save") : k < i => k <= j

C15_RoundTrip ==
    \A i \in EvsOf("load") :
        (\E j \in EvsOf("save") : j < i) =>
            events[i].ret = Some(Trimmed(Val(events[C15_LastSave(i)].arg)))

C15_Witness ==
    /\ Len(events) = 3
    /\ events[1].op = "save"
    /\ events[2].op = "save"
    /\ events[3].op = "load"
    /\ events[1].arg = Some(<<"b", " ", " ">>)
    /\ events[2].arg = Some(<<" ", "a", "\n">>)
    /\ events[3].ret = Some(<<"a">>)

\* the text of s between its first "code=" and the next "&", or the end of
\* s when no "&" follows
C16_Starts(s) == {i \in 1..(Len(s) - 4) : SubSeq(s, i, i + 4) = CodeEq}

C16_After(s) ==
    SubSeq(s, 5 + (CHOOSE i \in C16_Starts(s) : \A j \in C16_Starts(s) : i <= j),
           Len(s))

C16_Amps(s) == {i \in 1..Len(s) : s[i] = "&"}

C16_Between(s) ==
    IF C16_Amps(C16_After(s)) = {} THEN C16_After(s)
    ELSE SubSeq(C16_After(s), 1,
                (CHOOSE i \in C16_Amps(C16_After(s)) :
                    \A j \in C16_Amps(C16_After(s)) : i <= j) - 1)

\* C16: when the pasted line (the whitespace around it aside) contains
\* "code=", the human is asked once only and the code sent to the code
\* exchange is the URL-decoded text between the first "code=" and the next
\* "&" or the end of the line; when it does not, the human is asked exactly
\* once more and the code sent is what was typed then, trimmed and
\* URL-decoded.
C16_RedirectParsing ==
    /\ pc = "manual" => C16_Starts(Trimmed(Val(events[1].ret))) = {}
    /\ \A i \in EvsOf("code_exchange") :
           IF C16_Starts(Trimmed(Val(events[1].ret))) # {}
           THEN /\ Cardinality(EvsOf("input")) = 1
                /\ events[i].arg = Some(unquote(C16_Between(Trimmed(Val(events[1].ret)))))
           ELSE /\ Cardinality(EvsOf("input")) = 2
                /\ events[i].arg = Some(unquote(Trimmed(Val(events[2].ret))))

\* C17: without a bucket name no run calls the GCS client: nothing is
\* uploaded in interactive mode, nothing is downloaded in retrieval mode,
\* and the object in the bucket stays as it was.
C17_NoBucketNoRemote ==
    GCS_BUCKET_NAME = None =>
        /\ EvsOf("upload") = {}
        /\ EvsOf("download") = {}
        /\ pc \notin {"upload", "download"}
        /\ gcsObject = gcsObject0

C17_Witness ==
    /\ GCS_BUCKET_NAME = None
    /\ ~use_gcs_refresh_token
    /\ tokens # None
    /\ gcsObject0 # localFile
    /\ pc = "done"

\* C18: a retrieval run never uploads and never changes the object in the
\* bucket; the local file changes only by a download, and not at all when
\* it held a token, whether the refresh exchange succeeds or fails.
C18_RetrievalFrame ==
    use_gcs_refresh_token =>
        /\ EvsOf("upload") = {}
        /\ EvsOf("save") = {}
        /\ gcsObject = gcsObject0
        /\ localFile \in {localFile0, gcsObject0}
        /\ TokenIn(localFile0) # <<>> => localFile = localFile0

C18_Witness ==
    /\ use_gcs_refresh_token
    /\ EvsOf("download") # {}
    /\ localFile # localFile0
    /\ gcsObject0 # None
    /\ pc = "done"
    /\ ~LastEv.ok

\* C19: when the code exchange gave refresh token RT and the refresh
\* exchange is then rejected, the run reports failure and returns no access
\* token, yet the local file holds RT, so does the bucket object after an
\* upload that succeeded, and what the local file held before is gone.
C19_Case ==
    /\ ~use_gcs_refresh_token
    /\ tokens # None
    /\ pc = "done"
    /\ LastEv.op = "refresh_exchange"
    /\ ~LastEv.ok

C19_NoRollback ==
    C19_Case =>
        /\ access_token = None
        /\ Printed("Failed to authenticate and upload refresh token.")
        /\ localFile = Some(Val(tokens).refresh_token)
        /\ IF \E i \in EvsOf("upload") : events[i].ok
           THEN gcsObject = Some(Val(tokens).refresh_token)
           ELSE gcsObject = gcsObject0

C19_Witness ==
    /\ C19_Case
    /\ TokenIn(localFile0) \notin {<<>>, Val(tokens).refresh_token}
    /\ \E i \in EvsOf("upload") : events[i].ok
    /\ gcsObject # gcsObject0

\* C20: whenever the refresh exchange is called, in either mode, the token
\* passed is what the local file holds, the whitespace around it aside; an
\* access token is returned only from the token stored locally.
C20_CurrentToken ==
    /\ pc = "refresh" => refresh_token = Some(TokenIn(localFile))
    /\ \A i \in EvsOf("refresh_exchange") :
           events[i].arg = Some(TokenIn(localFile))
    /\ access_token # None =>
           /\ TokenIn(localFile) # <<>>
           /\ LastEv.arg = Some(TokenIn(localFile))

C20_Witness ==
    /\ use_gcs_refresh_token
    /\ \E i \in EvsOf("download") : events[i].ok
    /\ localFile # None
    /\ Val(localFile) # TokenIn(localFile)
    /\ pc = "done"
    /\ access_token # None
====
